---- MODULE Spec2Model ----
(***************************************************************************)
(* Nim over UDP: the server's per-client session handler (server.go), its  *)
(* board functions and move strategies, the NewClient/Client.go exchange   *)
(* loop, and a datagram network that may lose, duplicate and reorder.      *)
(*                                                                         *)
(* A StateMoveMessage is a record [GameState, Nil, MoveRow, MoveCount]:    *)
(* GameState is the []uint8 board as a sequence (1-based here, 0-based in  *)
(* the code, so pile MoveRow is GameState[MoveRow + 1]); Nil says whether  *)
(* the Go slice is nil; MoveRow and MoveCount are int8.                    *)
(***************************************************************************)
EXTENDS Integers, Sequences, FiniteSets, TLC

(* ------------------------------ bounds --------------------------------- *)

\* rand.Intn(14) + 3: the least number of rows GenerateBoard draws.
MinRows == 3
\* The most rows a drawn board has in the model (the program draws up to 16).
MaxRows == 3
\* rand.Intn(10) + 1: the least number of coins in a drawn row.
MinCoins == 1
\* The most coins in a drawn row in the model; it stands for the program's 10,
\* both in the draw and in GenerateBoard's "board[numRows-1] < 10".
MaxCoins == 2

\* The most rows of a board handed to a board function on its own.
PureRows == 2

\* The most rows of a draw handed to GenerateBoard on its own: one more than
\* MinRows, so that draws with a nim-sum of 0 exist.
GenRows == 4

\* datagrams the network may duplicate in one run
MaxDup == 1

\* datagrams the network may damage in one run
MaxCorrupt == 1

\* unread datagrams the client's socket holds; one that finds it full waits
MaxInbox == 1
\* The largest int8; a uint8 pile above it turns negative under int8().
Int8Max == 127

\* The seeds a GameStart may carry in the model: one even, one odd.
Seeds == {0, 1}
\* The client identities (raddr.String()) that play: each may send anything.
Clients == {"a"}
\* Identities that never send a GameStart: whatever else they send, they have
\* no session.
Strangers == {"b"}

(* --------------------------- machine integers -------------------------- *)

\* int8(x) of a value in 0..255 (two's complement)
ToInt8(x) == IF x % 256 >= 128 THEN (x % 256) - 256 ELSE x % 256

\* uint8(x) of an int8
ToUint8(x) == x % 256

RECURSIVE XorBits(_, _)
\* a ^ b on non-negative integers, bit by bit
XorBits(a, b) ==
  IF a = 0 THEN b
  ELSE IF b = 0 THEN a
  ELSE ((a + b) % 2) + 2 * XorBits(a \div 2, b \div 2)

\* a ^ b, the operands evaluated once
Xor(a, b) == CHOOSE r \in {XorBits(x, y) : x \in {a}, y \in {b}} : TRUE

(* ------------------------------ messages ------------------------------- *)

Move(board, row, count) ==
  [GameState |-> board, Nil |-> FALSE, MoveRow |-> row, MoveCount |-> count]

NilMove(row, count) ==
  [GameState |-> <<>>, Nil |-> TRUE, MoveRow |-> row, MoveCount |-> count]

\* StateMoveMessage{}: the zero value, which a map lookup of an absent key gives
ZeroMove == NilMove(0, 0)

\* gob encoding: an empty slice is not transmitted, so the wire does not tell
\* nil from empty; the int8 fields travel as they are
Marshal(move) ==
  [GameState |-> move.GameState, MoveRow |-> move.MoveRow, MoveCount |-> move.MoveCount]

\* gob decoding into a fresh StateMoveMessage{}: a board that was not
\* transmitted stays nil
Unmarshal(wire) ==
  [GameState |-> wire.GameState, Nil |-> Len(wire.GameState) = 0,
   MoveRow |-> wire.MoveRow, MoveCount |-> wire.MoveCount]

\* mutant of emptyBoard: only a board with no rows counts as empty
emptyBoardNoRows(board) == Len(board) = 0

(* ---------------------------- board model ------------------------------ *)

emptyBoard(board) == \A i \in 1..Len(board) : board[i] = 0

RECURSIVE nimSumFrom(_, _)
nimSumFrom(board, i) ==
  IF i > Len(board) THEN 0 ELSE Xor(board[i], nimSumFrom(board, i + 1))

nimSum(board) == nimSumFrom(board, 1)

\* the first row (1-based) of board in rows, or 0: a loop's first hit
FirstRow(rows) ==
  IF rows = {} THEN 0 ELSE CHOOSE i \in rows : \A j \in rows : i <= j

\* mutant of normalMove: the first non-empty pile is emptied, one coin reported
normalMoveWholePile(board) ==
  LET i == FirstRow({r \in 1..Len(board) : board[r] > 0})
  IN  IF i = 0
      THEN [err |-> TRUE, move |-> ZeroMove]
      ELSE [err |-> FALSE, move |-> Move([board EXCEPT ![i] = 0], ToInt8(i - 1), 1)]

\* normalMove: [err, move]; err is the "no move to make" error with a nil move
normalMove(board) ==
  LET i == FirstRow({r \in 1..Len(board) : board[r] > 0})
  IN  IF i = 0
      THEN [err |-> TRUE, move |-> ZeroMove]
      ELSE [err |-> FALSE,
            move |-> Move([board EXCEPT ![i] = (@ - 1) % 256], ToInt8(i - 1), 1)]

\* mutant of bestMove: the advanced strategy left out, every move is the naive one
bestMoveNaive(board) == normalMove(board)

\* mutant of bestMove: the search keeps the last candidate pile, not the first
bestMoveLastCandidate(board) ==
  LET sum == nimSum(board)
      rows == {r \in 1..Len(board) : Xor(sum, board[r]) <= board[r]}
      i == IF rows = {} THEN 0 ELSE CHOOSE r \in rows : \A j \in rows : j <= r
  IN  IF sum # 0 /\ i # 0
      THEN [err |-> FALSE,
            move |-> Move([board EXCEPT ![i] = Xor(sum, board[i])], ToInt8(i - 1),
                          ToInt8((board[i] - Xor(sum, board[i])) % 256))]
      ELSE normalMove(board)

\* bestMove: [err, move]; err is CheckErr's os.Exit(1)
bestMove(board) ==
  LET sum == nimSum(board)
      i == FirstRow({r \in 1..Len(board) : Xor(sum, board[r]) <= board[r]})
  IN  IF sum # 0 /\ i # 0
      THEN [err |-> FALSE,
            move |-> Move([board EXCEPT ![i] = Xor(sum, board[i])], ToInt8(i - 1),
                          ToInt8((board[i] - Xor(sum, board[i])) % 256))]
      ELSE normalMove(board)

\* mutant of Resign: the sentinel carries the zero MoveRow and MoveCount
ResignUnmarked == NilMove(0, 0)

\* the resignation sentinel Play returns for an empty board
Resign == NilMove(-2, -2)

\* Play: [err, move]; err when normalMove fails (a nil dereference in Play, an
\* exit in bestMove)
Play(move, mode) ==
  LET board == move.GameState
  IN  IF emptyBoard(board) THEN [err |-> FALSE, move |-> Resign]
      ELSE IF mode = 1 THEN bestMove(board)
      ELSE normalMove(board)

\* mutant of CheckMove: only the sanity checks are made
CheckMoveSanityOnly(incmove, lastmove) ==
  /\ Len(lastmove.GameState) = Len(incmove.GameState)
  /\ incmove.MoveRow >= 0
  /\ incmove.MoveRow < Len(incmove.GameState)

\* mutant of CheckMove: the moved row's new count is not checked
CheckMoveRowUnchecked(incmove, lastmove) ==
  LET lastboard == lastmove.GameState
      incboard == incmove.GameState
  IN  IF \/ Len(lastboard) # Len(incboard)
         \/ incmove.MoveRow < 0
         \/ incmove.MoveRow >= Len(incboard)
      THEN FALSE
      ELSE \A i \in 1..Len(incboard) :
             \/ incboard[i] = lastboard[i]
             \/ i - 1 = incmove.MoveRow

\* mutant of CheckMove: MoveRow = len(board) passes the sanity check
CheckMoveRowOffByOne(incmove, lastmove) ==
  LET lastboard == lastmove.GameState
      incboard == incmove.GameState
  IN  IF \/ Len(lastboard) # Len(incboard)
         \/ incmove.MoveRow < 0
         \/ incmove.MoveRow > Len(incboard)
      THEN FALSE
      ELSE \A i \in 1..Len(incboard) :
             \/ incboard[i] = lastboard[i]
             \/ /\ i - 1 = incmove.MoveRow
                /\ incmove.MoveCount > 0
                /\ incmove.MoveCount <= ToInt8(lastboard[i])
                /\ incboard[i] = (lastboard[i] - ToUint8(incmove.MoveCount)) % 256

\* check that the move is valid against the last move the server sent
CheckMove(incmove, lastmove) ==
  LET lastboard == lastmove.GameState
      incboard == incmove.GameState
  IN  IF \/ Len(lastboard) # Len(incboard)
         \/ incmove.MoveRow < 0
         \/ incmove.MoveRow >= Len(incboard)
      THEN FALSE
      ELSE \A i \in 1..Len(incboard) :
             \/ incboard[i] = lastboard[i]
             \/ /\ i - 1 = incmove.MoveRow
                /\ incmove.MoveCount > 0
                /\ incmove.MoveCount <= ToInt8(lastboard[i])
                /\ incboard[i] = (lastboard[i] - ToUint8(incmove.MoveCount)) % 256

(* ------------------------------- state --------------------------------- *)

VARIABLES
  rawOf,               \* seed -> the board math/rand draws after rand.Seed(seed)
  clientGames,         \* map raddr -> last known state (the server's last reply)
  clientDifficulties,  \* map raddr -> seed & 1
  crashed,             \* the server process has exited or panicked
  raddrStr,            \* the receive loop's locals, as the last iteration left them
  exists,
  lastRow,             \* lastMove.MoveRow
  ver,                 \* "start", "drop", "invalid", "valid", or "none"
  servMove,
  written,             \* whether the iteration reached udp.WriteTo
  replay,              \* history: the datagram carried the board of acceptedBoard
  acceptedBoard,       \* history: raddr -> the board of the client move last
                       \* accepted in its current game
  op,                  \* a board function applied on its own: which one,
  arg,                 \* to what,
  res,                 \* and what it returned
  pc,                  \* the client: where it is in main
  clientSeed,          \* its seed argument (already converted to int8)
  state,               \* its copy of the board
  sendMove,            \* the move it is sending
  winner,              \* the Winner of the GameComplete it recorded, or "none"
  lastRecv,            \* how its receive since the last send ended, or "none"
  c2s,                 \* datagrams in flight from the client to the server
  s2c,                 \* datagrams in flight from the server to the client
  inbox,               \* datagrams that arrived at the client's socket, unread
  dups,                \* how many datagrams the network has duplicated
  corrupt              \* how many datagrams reached the client damaged

srvVars == <<clientGames, clientDifficulties, crashed, raddrStr, exists, lastRow,
             ver, servMove, written, replay, acceptedBoard>>

pureVars == <<op, arg, res>>

cliVars == <<pc, clientSeed, state, sendMove, winner, lastRecv>>

netVars == <<c2s, s2c, inbox, dups, corrupt>>

vars == <<rawOf, srvVars, pureVars, cliVars, netVars>>

\* the boards the draw of GenerateBoard can give, within the bounds
RawBoards ==
  UNION {[1..n -> MinCoins..MaxCoins] : n \in MinRows..MaxRows}

\* mutant of GenerateBoard: the draw is returned as it is
GenerateBoardNoAdjust(seed) == rawOf[seed]

\* GenerateBoard: the draw for the seed, its last row adjusted when the nim-sum is 0
GenerateBoard(seed) ==
  LET board == rawOf[seed]
      n == Len(board)
  IN  IF nimSum(board) = 0
      THEN IF board[n] < MaxCoins
           THEN [board EXCEPT ![n] = @ + 1]
           ELSE [board EXCEPT ![n] = @ - 1]
      ELSE board

\* v, ok := m[k]
Lookup(m, k, zero) == IF k \in DOMAIN m THEN m[k] ELSE zero

\* m[k] = v
Store(m, k, v) == [x \in DOMAIN m \cup {k} |-> IF x = k THEN v ELSE m[x]]

\* the history map forgets k
Forget(m, k) == [x \in DOMAIN m \ {k} |-> m[x]]

IsGameStart(move) == move.Nil /\ move.MoveRow = -1

(* --------------------------- server handler ---------------------------- *)

\* mutant of OnStart: a client with a game under way gets that game back
OnStartKeepsGame(games, diffs, c, move) ==
  LET seed == move.MoveCount
      reply == IF c \in DOMAIN games THEN games[c]
               ELSE Move(GenerateBoard(seed), -1, seed)
  IN  [ver |-> "start", err |-> FALSE, sent |-> TRUE, reply |-> reply,
       games |-> Store(games, c, reply),
       diffs |-> Store(diffs, c, ToUint8(seed) % 2)]

\* mutant of OnStart: one difficulty for the whole server, set by the last start
OnStartSharedDifficulty(games, diffs, c, move) ==
  LET seed == move.MoveCount
      reply == Move(GenerateBoard(seed), -1, seed)
  IN  [ver |-> "start", err |-> FALSE, sent |-> TRUE, reply |-> reply,
       games |-> Store(games, c, reply),
       diffs |-> [x \in DOMAIN diffs \cup {c} |-> ToUint8(seed) % 2]]

\* the GameStart branch: a new board from the seed, the difficulty from its low bit
OnStart(games, diffs, c, move) ==
  LET seed == move.MoveCount
      reply == Move(GenerateBoard(seed), -1, seed)
  IN  [ver |-> "start", err |-> FALSE, sent |-> TRUE, reply |-> reply,
       games |-> Store(games, c, reply),
       diffs |-> Store(diffs, c, ToUint8(seed) % 2)]

\* mutant of OnDrop: the continue is missing, the zero servMove is saved and sent
OnDropFallsThrough(games, diffs, c, move) ==
  [ver |-> "drop", err |-> FALSE, sent |-> TRUE, reply |-> ZeroMove,
   games |-> Store(games, c, ZeroMove), diffs |-> diffs]

\* no ongoing game and not a GameStart: continue
OnDrop(games, diffs, c, move) ==
  [ver |-> "drop", err |-> FALSE, sent |-> FALSE, reply |-> ZeroMove,
   games |-> games, diffs |-> diffs]

\* mutant of OnInvalid: servMove is left at its zero value
OnInvalidZero(games, diffs, c, last) ==
  [ver |-> "invalid", err |-> FALSE, sent |-> TRUE, reply |-> ZeroMove,
   games |-> Store(games, c, ZeroMove), diffs |-> diffs]

\* !ver: servMove = lastMove, saved and sent
OnInvalid(games, diffs, c, last) ==
  [ver |-> "invalid", err |-> FALSE, sent |-> TRUE, reply |-> last,
   games |-> Store(games, c, last), diffs |-> diffs]

\* mutant of OnValid: the server moves from its own last board, not the client's
OnValidFromLast(games, diffs, c, move) ==
  LET p == Play(games[c], Lookup(diffs, c, 0))
  IN  [ver |-> "valid", err |-> p.err, sent |-> ~p.err, reply |-> p.move,
       games |-> IF p.err THEN games ELSE Store(games, c, p.move),
       diffs |-> diffs]

\* ver: servMove = Play(clientMove, clientDifficulties[raddrStr]), saved and sent;
\* a failing Play ends the process before anything is saved
OnValid(games, diffs, c, move) ==
  LET p == Play(move, Lookup(diffs, c, 0))
  IN  [ver |-> "valid", err |-> p.err, sent |-> ~p.err, reply |-> p.move,
       games |-> IF p.err THEN games ELSE Store(games, c, p.move),
       diffs |-> diffs]

\* One iteration of the receive loop on a datagram from c that decodes to move:
\* what it decides, what it replies and what it leaves in the two maps.
Serve(games, diffs, c, move) ==
  IF IsGameStart(move) THEN OnStart(games, diffs, c, move)
  ELSE IF c \notin DOMAIN games THEN OnDrop(games, diffs, c, move)
  ELSE IF ~CheckMove(move, games[c]) THEN OnInvalid(games, diffs, c, games[c])
  ELSE OnValid(games, diffs, c, move)

\* The boards a datagram may carry in the model
Piles == 0..MaxCoins
Boards == UNION {[1..n -> Piles] : n \in MinRows..MaxRows}
MoveRows == (-1)..MaxRows
MoveCounts == (-1)..MaxCoins

\* What may arrive on the wire: any board or none, any row, any count; a
\* GameStart carries one of the model's seeds.
Datagrams ==
  {m \in {Move(b, r, k) : b \in Boards, r \in MoveRows, k \in MoveCounts}
         \cup {NilMove(r, k) : r \in MoveRows, k \in MoveCounts} :
     IsGameStart(m) => m.MoveCount \in Seeds}

\* the server reads a datagram from c that decodes, and handles it
HandleDatagram(c, wire) ==
  \E move \in {Unmarshal(wire)} :
  \E s \in {Serve(clientGames, clientDifficulties, c, move)} :
      /\ ~crashed
      /\ raddrStr' = c
      /\ exists' = (c \in DOMAIN clientGames)
      /\ lastRow' = Lookup(clientGames, c, ZeroMove).MoveRow
      /\ ver' = s.ver
      /\ servMove' = s.reply
      /\ crashed' = s.err
      /\ written' = s.sent
      /\ clientGames' = s.games
      /\ clientDifficulties' = s.diffs
      /\ replay' = (c \in DOMAIN acceptedBoard /\ ~move.Nil
                     /\ move.GameState = acceptedBoard[c])
      /\ acceptedBoard' =
           IF s.ver = "start" THEN Forget(acceptedBoard, c)
           ELSE IF s.ver = "valid" /\ ~s.err
                THEN Store(acceptedBoard, c, move.GameState)
           ELSE acceptedBoard
      /\ UNCHANGED rawOf

\* a datagram from c that does not decode: the loop logs the error and continues;
\* nothing is recorded, saved or sent
HandleCorrupt(c) ==
  /\ ~crashed
  /\ UNCHANGED <<rawOf, srvVars>>

\* a stranger's datagrams: a board a draw can give, or none
StrangerDatagrams ==
  {m \in Datagrams : ~IsGameStart(m) /\ (m.Nil \/ m.GameState \in RawBoards)}

\* a player sends anything
Receive ==
  /\ \E c \in Clients, m \in Datagrams : HandleDatagram(c, Marshal(m))
  /\ UNCHANGED <<pureVars, cliVars, netVars>>

\* a stranger sends anything but a GameStart
ReceiveStranger ==
  /\ \E c \in Strangers, m \in StrangerDatagrams : HandleDatagram(c, Marshal(m))
  /\ UNCHANGED <<pureVars, cliVars, netVars>>

ReceiveCorrupt ==
  /\ \E c \in Clients \cup Strangers : HandleCorrupt(c)
  /\ UNCHANGED <<pureVars, cliVars, netVars>>

SrvInit ==
  /\ clientGames = <<>>
  /\ clientDifficulties = <<>>
  /\ crashed = FALSE
  /\ raddrStr = "none"
  /\ exists = FALSE
  /\ lastRow = 0
  /\ ver = "none"
  /\ servMove = ZeroMove
  /\ written = FALSE
  /\ replay = FALSE
  /\ acceptedBoard = <<>>

PureIdle ==
  /\ op = "none"
  /\ arg = ZeroMove
  /\ res = FALSE

\* no client process and no network: the datagrams come from anywhere
NetIdle ==
  /\ pc = "off"
  /\ clientSeed = 0
  /\ state = <<>>
  /\ sendMove = ZeroMove
  /\ winner = "none"
  /\ lastRecv = "none"
  /\ c2s = {}
  /\ s2c = {}
  /\ inbox = <<>>
  /\ dups = 0
  /\ corrupt = 0

Init ==
  /\ rawOf \in [Seeds -> RawBoards]
  /\ SrvInit
  /\ PureIdle
  /\ NetIdle

Next == Receive \/ ReceiveStranger \/ ReceiveCorrupt

\* The server's receive loop against arbitrary datagrams.
Spec == Init /\ [][Next]_vars

(* ------------- the client of NewClient against the server -------------- *)

\* decideMove: [err, move]; err is the os.Exit(1) of "move decision strategy
\* failed"
decideMove(board) ==
  LET sum == nimSum(board)
      i == FirstRow({r \in 1..Len(board) : board[r] >= Xor(board[r], sum)})
      j == FirstRow({r \in 1..Len(board) : board[r] # 0})
  IN  IF sum # 0 /\ i # 0
      THEN [err |-> FALSE,
            move |-> Move([board EXCEPT ![i] = Xor(board[i], sum)], ToInt8(i - 1),
                          ToInt8((board[i] - Xor(board[i], sum)) % 256))]
      ELSE IF sum = 0 /\ j # 0
      THEN [err |-> FALSE,
            move |-> Move([board EXCEPT ![j] = (@ - 1) % 256], ToInt8(j - 1), 1)]
      ELSE [err |-> TRUE, move |-> ZeroMove]

\* mutant of isWinState: only the first pile is looked at
isWinStateFirstPile(board) == Len(board) > 0 => board[1] = 0

isWinState(board) == \A i \in 1..Len(board) : board[i] = 0

\* Go's copy(dst, src): the first min(len) elements
Copy(dst, src) ==
  [i \in 1..Len(dst) |-> IF i <= Len(src) THEN src[i] ELSE dst[i]]

\* mutant of isValidSuccessor: every reply is accepted
isValidSuccessorAlways(board, move) == "valid"

\* isValidSuccessor: "valid", "invalid", or "panic" when the loop indexes
\* move.GameState past its end before it finds a difference
isValidSuccessor(board, move) ==
  LET Short(i) == i > Len(move.GameState)
      Differs(i) ==
        IF i - 1 = move.MoveRow
        THEN (board[i] - ToUint8(move.MoveCount)) % 256 # move.GameState[i]
        ELSE board[i] # move.GameState[i]
      i == FirstRow({r \in 1..Len(board) : Short(r) \/ Differs(r)})
  IN  IF i = 0 THEN "valid" ELSE IF Short(i) THEN "panic" ELSE "invalid"

\* traceAndSend: the datagram is written to the connection
traceAndSend(move) == c2s' = c2s \cup {Marshal(move)}

\* the start loop sends the start packet
ClientSendStart ==
  /\ pc = "start"
  /\ traceAndSend(sendMove)
  /\ pc' = "startWait"
  /\ lastRecv' = "none"
  /\ UNCHANGED <<clientSeed, state, sendMove, winner, s2c, inbox, dups, corrupt, rawOf,
               srvVars, pureVars>>

\* mutant of ClientTimeout: after a timeout in the inner loop the client decides
\* a move again from its board
ClientTimeoutMovesAgain ==
  /\ pc \in {"startWait", "wait"}
  /\ inbox = <<>>
  /\ pc' = IF pc = "startWait" THEN "start" ELSE "send"
  /\ lastRecv' = "timeout"
  /\ \E d \in {decideMove(state)} :
       IF pc = "wait" /\ ~d.err
       THEN sendMove' = d.move /\ state' = d.move.GameState
       ELSE UNCHANGED <<state, sendMove>>
  /\ UNCHANGED <<clientSeed, winner, netVars, rawOf, srvVars, pureVars>>

\* recvAndTrace returns an error: nothing arrived before the deadline
ClientTimeout ==
  /\ pc \in {"startWait", "wait"}
  /\ inbox = <<>>
  /\ pc' = IF pc = "startWait" THEN "start" ELSE "send"
  /\ lastRecv' = "timeout"
  /\ UNCHANGED <<clientSeed, state, sendMove, winner, netVars, rawOf, srvVars, pureVars>>

\* recvAndTrace returns an error: the datagram read was damaged on the way
\* and does not decode; recvMove is left as it was
ClientRecvCorrupt ==
  /\ pc \in {"startWait", "wait"}
  /\ inbox # <<>>
  /\ corrupt < MaxCorrupt
  /\ corrupt' = corrupt + 1
  /\ inbox' = Tail(inbox)
  /\ pc' = IF pc = "startWait" THEN "start" ELSE "send"
  /\ lastRecv' = "corrupt"
  /\ UNCHANGED <<clientSeed, state, sendMove, winner, c2s, s2c, dups, rawOf, srvVars,
                 pureVars>>

\* conn.Read returns the oldest datagram that arrived
ClientTakes(m) ==
  /\ inbox # <<>>
  /\ m = Head(inbox)
  /\ inbox' = Tail(inbox)
  /\ UNCHANGED <<c2s, s2c, dups, corrupt>>

\* the start loop takes whatever arrives as the board and the client decides
\* its first move
ClientRecvStart(m) ==
  /\ pc = "startWait"
  /\ ClientTakes(m)
  /\ lastRecv' = "start"
  /\ \E recvMove \in {Unmarshal(m)} :
     \E d \in {decideMove(recvMove.GameState)} :
         IF d.err
         THEN /\ pc' = "failed"
              /\ state' = recvMove.GameState
              /\ UNCHANGED sendMove
         ELSE /\ pc' = "send"
              /\ sendMove' = d.move
              /\ state' = Copy(recvMove.GameState, d.move.GameState)
  /\ UNCHANGED <<clientSeed, winner, rawOf, srvVars, pureVars>>

\* the inner loop sends the move; a client that has emptied the board records
\* GameComplete{"client"} and exits
ClientSendMove ==
  /\ pc = "send"
  /\ traceAndSend(sendMove)
  /\ IF isWinState(state)
     THEN pc' = "done" /\ winner' = "client"
     ELSE pc' = "wait" /\ UNCHANGED winner
  /\ lastRecv' = "none"
  /\ UNCHANGED <<clientSeed, state, sendMove, s2c, inbox, dups, corrupt, rawOf, srvVars,
               pureVars>>

\* the inner loop receives m: not a successor of state, it sends the move
\* again; a successor, it takes the board and either records
\* GameComplete{"server"} and exits or decides its next move
ClientRecvMove(m) ==
  /\ pc = "wait"
  /\ ClientTakes(m)
  /\ \E recvMove \in {Unmarshal(m)} :
     \E v \in {isValidSuccessor(state, recvMove)} :
     \E board \in {Copy(state, recvMove.GameState)} :
     \E d \in {decideMove(board)} :
       /\ lastRecv' = v
       /\ IF v = "panic"
            THEN pc' = "failed" /\ UNCHANGED <<state, sendMove, winner>>
            ELSE IF v = "invalid"
            THEN pc' = "send" /\ UNCHANGED <<state, sendMove, winner>>
            ELSE IF isWinState(board)
            THEN /\ pc' = "done"
                 /\ winner' = "server"
                 /\ state' = board
                 /\ UNCHANGED sendMove
            ELSE IF d.err
            THEN pc' = "failed" /\ state' = board /\ UNCHANGED <<sendMove, winner>>
            ELSE /\ pc' = "send"
                 /\ sendMove' = d.move
                 /\ state' = Copy(board, d.move.GameState)
                 /\ UNCHANGED winner
  /\ UNCHANGED <<clientSeed, rawOf, srvVars, pureVars>>

\* the network hands the server datagram m of the client, once more later if
\* keep; the server handles it and its reply, if any, is in flight
ServerTakes(m, keep) ==
  /\ m \in c2s
  /\ keep => dups < MaxDup
  /\ \E c \in Clients : HandleDatagram(c, m)
  /\ c2s' = IF keep THEN c2s ELSE c2s \ {m}
  /\ dups' = IF keep THEN dups + 1 ELSE dups
  /\ s2c' = IF written' THEN s2c \cup {Marshal(servMove')} ELSE s2c
  /\ UNCHANGED <<inbox, corrupt, cliVars, pureVars>>

\* the network hands datagram m of the server to the client's socket, once
\* more later if keep
Arrives(m, keep) ==
  /\ m \in s2c
  /\ Len(inbox) < MaxInbox
  /\ keep => dups < MaxDup
  /\ inbox' = Append(inbox, m)
  /\ s2c' = IF keep THEN s2c ELSE s2c \ {m}
  /\ dups' = IF keep THEN dups + 1 ELSE dups
  /\ UNCHANGED <<c2s, corrupt, cliVars, rawOf, srvVars, pureVars>>

ClientRecv ==
  /\ inbox # <<>>
  /\ \E m \in {Head(inbox)} : ClientRecvStart(m) \/ ClientRecvMove(m)

ClientArrival == \E m \in s2c, keep \in BOOLEAN : Arrives(m, keep)

ServerRecv == \E m \in c2s, keep \in BOOLEAN : ServerTakes(m, keep)

\* the network loses a datagram
Lose ==
  /\ \/ \E m \in c2s : c2s' = c2s \ {m} /\ UNCHANGED s2c
     \/ \E m \in s2c : s2c' = s2c \ {m} /\ UNCHANGED c2s
  /\ UNCHANGED <<inbox, dups, corrupt, cliVars, rawOf, srvVars, pureVars>>

\* the datagram the client is sending again and again
ClientCurrent == Marshal(sendMove)

\* the datagram the server answers the client with again and again
ServerCurrent ==
  Marshal(Lookup(clientGames, CHOOSE c \in Clients : TRUE, ZeroMove))

\* the server takes the datagram the client is retransmitting
ServerRecvCurrent ==
  \E m \in {ClientCurrent}, keep \in BOOLEAN : ServerTakes(m, keep)

\* the datagram the server is retransmitting arrives at the client
ClientArrivalCurrent ==
  \E m \in {ServerCurrent}, keep \in BOOLEAN : Arrives(m, keep)

\* one client started with a seed, the server just started, nothing in flight
NetInit ==
  /\ \E b \in RawBoards : rawOf = [s \in Seeds |-> b]
  /\ SrvInit
  /\ PureIdle
  /\ pc = "start"
  /\ clientSeed \in Seeds
  /\ state = <<>>
  /\ sendMove = NilMove(-1, clientSeed)
  /\ winner = "none"
  /\ lastRecv = "none"
  /\ c2s = {}
  /\ s2c = {}
  /\ inbox = <<>>
  /\ dups = 0
  /\ corrupt = 0

ClientStep ==
  ClientSendStart \/ ClientSendMove \/ ClientTimeout \/ ClientRecvCorrupt \/ ClientRecv

NetNext == ClientStep \/ ServerRecv \/ ClientArrival \/ Lose

\* One NewClient client and the server over a network that loses, duplicates,
\* damages and reorders datagrams. The client process keeps running, and a datagram
\* that is sent again and again is eventually taken by its receiver.
NetSpec ==
  /\ NetInit
  /\ [][NetNext]_vars
  /\ WF_vars(ClientStep)
  /\ SF_vars(ServerRecvCurrent)
  /\ SF_vars(ClientArrivalCurrent)

(* ------------------- two players against the server ------------------- *)

\* the identities that play in the two-player runs
Players == Clients \cup Strangers

\* the moves that take coins from one pile of board, with the pile's index
\* moved by shift in MoveRow
MovesFrom(board, shift) ==
  UNION {{Move([board EXCEPT ![r] = @ - k], ToInt8(r - 1 + shift), k) :
            k \in 1..board[r]} : r \in 1..Len(board)}

\* what c may send: a GameStart, a move from the board the server holds for
\* it, such a move naming the wrong pile, or a move on a board of its own
PlayerStartDatagrams == {NilMove(-1, seed) : seed \in Seeds}
PlayerMoveDatagrams(c, shift) ==
  IF c \in DOMAIN clientGames THEN MovesFrom(clientGames[c].GameState, shift) ELSE {}
PlayerStrayDatagrams == UNION {MovesFrom(rawOf[seed], 0) : seed \in Seeds}
PlayerDatagrams(c) ==
  PlayerStartDatagrams \cup PlayerMoveDatagrams(c, 0) \cup PlayerMoveDatagrams(c, 1)
    \cup PlayerStrayDatagrams

\* c sends a GameStart
PlayerStarts(c) ==
  /\ \E m \in PlayerStartDatagrams : HandleDatagram(c, Marshal(m))
  /\ UNCHANGED <<pureVars, cliVars, netVars>>

\* c, with a game under way, sends a move from the board the server holds for it
PlayerMoves(c) ==
  /\ c \in DOMAIN clientGames
  /\ \E m \in PlayerMoveDatagrams(c, 0) : HandleDatagram(c, Marshal(m))
  /\ UNCHANGED <<pureVars, cliVars, netVars>>

\* c, with a game under way, sends a move that names the wrong pile
PlayerMovesWrongly(c) ==
  /\ c \in DOMAIN clientGames
  /\ \E m \in PlayerMoveDatagrams(c, 1) : HandleDatagram(c, Marshal(m))
  /\ UNCHANGED <<pureVars, cliVars, netVars>>

\* c, with no game under way, sends a move
PlayerStrays(c) ==
  /\ c \notin DOMAIN clientGames
  /\ \E m \in PlayerStrayDatagrams : HandleDatagram(c, Marshal(m))
  /\ UNCHANGED <<pureVars, cliVars, netVars>>

PlayersStart == \E c \in Players : PlayerStarts(c)
PlayersMove == \E c \in Players : PlayerMoves(c)
PlayersMoveWrongly == \E c \in Players : PlayerMovesWrongly(c)
PlayersStray == \E c \in Players : PlayerStrays(c)

PlayersNext == PlayersStart \/ PlayersMove \/ PlayersMoveWrongly \/ PlayersStray

\* The server's receive loop against the datagrams of two identities, each of
\* which starts games and moves, rightly or wrongly, in any interleaving.
PlayersSpec == Init /\ [][PlayersNext]_vars

(* ------- the client of client.go / newClient.go against the server ------ *)

\* normalmove (normal in newClient.go): [err, move]
normalmove(board) ==
  LET i == FirstRow({r \in 1..Len(board) : board[r] > 0})
  IN  IF i = 0
      THEN [err |-> TRUE, move |-> ZeroMove]
      ELSE [err |-> FALSE,
            move |-> Move([board EXCEPT ![i] = (@ - 1) % 256], ToInt8(i - 1), 1)]

\* play: normalmove's result; on its error the nil move is dereferenced
play(board) == normalmove(board)

\* nimsum (allzeros in newClient.go): every pile is 0
nimsum(board) == \A i \in 1..Len(board) : board[i] = 0

\* the client writes the start packet once, before its loop
LegacySendStart ==
  /\ pc = "legacySend"
  /\ c2s' = c2s \cup {Marshal(NilMove(-1, clientSeed))}
  /\ pc' = "legacyRead"
  /\ UNCHANGED <<clientSeed, state, sendMove, winner, lastRecv, s2c, inbox, dups,
                 corrupt, rawOf, srvVars, pureVars>>

\* one pass of the loop: ReadFromUDP, which has no deadline, returns datagram
\* m; a nil board with MoveRow -1 is answered by the start packet; a board
\* with MoveCount > 0 ends the game if it is all zero and is answered by the
\* naive move if not; anything else is answered by nothing, and the loop
\* reads again
LegacyRead ==
  /\ pc = "legacyRead"
  /\ \E m \in s2c :
     \E ServerMove \in {Unmarshal(m)} :
     \E newMove \in {play(ServerMove.GameState)} :
       /\ s2c' = s2c \ {m}
       /\ IF ServerMove.Nil /\ ServerMove.MoveRow = -1
          THEN /\ c2s' = c2s \cup {Marshal(NilMove(-1, clientSeed))}
               /\ lastRecv' = "start"
               /\ UNCHANGED <<pc, state, sendMove, winner>>
          ELSE IF ~ServerMove.Nil /\ ServerMove.MoveCount > 0
          THEN IF nimsum(ServerMove.GameState)
               THEN /\ pc' = "done"
                    /\ winner' = "Server"
                    /\ lastRecv' = "complete"
                    /\ state' = ServerMove.GameState
                    /\ UNCHANGED <<c2s, sendMove>>
               ELSE IF newMove.err
               THEN /\ pc' = "failed"
                    /\ lastRecv' = "moved"
                    /\ UNCHANGED <<c2s, state, sendMove, winner>>
               ELSE /\ c2s' = c2s \cup {Marshal(newMove.move)}
                    /\ sendMove' = newMove.move
                    /\ state' = newMove.move.GameState
                    /\ lastRecv' = "moved"
                    /\ UNCHANGED <<pc, winner>>
          ELSE /\ lastRecv' = "ignored"
               /\ UNCHANGED <<pc, state, sendMove, winner, c2s>>
  /\ UNCHANGED <<clientSeed, inbox, dups, corrupt, rawOf, srvVars, pureVars>>

\* the network hands the server a datagram of the client, once
LegacyServerRecv == \E m \in c2s : ServerTakes(m, FALSE)

\* one legacy client started with a seed, the server just started
LegacyInit ==
  /\ rawOf \in [Seeds -> RawBoards]
  /\ SrvInit
  /\ PureIdle
  /\ pc = "legacySend"
  /\ clientSeed \in Seeds
  /\ state = <<>>
  /\ sendMove = NilMove(-1, clientSeed)
  /\ winner = "none"
  /\ lastRecv = "none"
  /\ c2s = {}
  /\ s2c = {}
  /\ inbox = <<>>
  /\ dups = 0
  /\ corrupt = 0

LegacyNext == LegacySendStart \/ LegacyRead \/ LegacyServerRecv

\* One legacy client and the server over a network that delivers every
\* datagram exactly once. Both processes keep running: whatever can be done
\* is eventually done.
LegacySpec ==
  /\ LegacyInit
  /\ [][LegacyNext]_vars
  /\ WF_vars(LegacySendStart)
  /\ WF_vars(LegacyRead)
  /\ WF_vars(LegacyServerRecv)

(* ------------------- the board functions on their own ------------------ *)

\* uint8 piles: the small ones, and the first one int8() turns negative
PurePiles == (0..MaxCoins) \cup {Int8Max + 1}
PureBoards == UNION {[1..n -> PurePiles] : n \in 0..PureRows}
PureMoves ==
  {Move(b, r, k) : b \in PureBoards, r \in (-1)..PureRows, k \in MoveCounts}

PureArgs ==
  {[inc |-> m, last |-> Move(b, -1, 0)] : m \in PureMoves, b \in PureBoards}
    \cup {[board |-> b] : b \in PureBoards}

ApplyCheckMove ==
  /\ op = "none"
  /\ "inc" \in DOMAIN arg
  /\ op' = "CheckMove"
  /\ res' = CheckMove(arg.inc, arg.last)
  /\ UNCHANGED <<arg, rawOf, srvVars, cliVars, netVars>>

\* a strategy's result r on arg.board, then CheckMove of its move against that
\* board as it was before the strategy ran
RoundTrip(r) ==
  [err |-> r.err, move |-> r.move,
   legal |-> ~r.err /\ CheckMove(r.move, Move(arg.board, -1, 0))]

ApplyNormalMove ==
  /\ op = "none"
  /\ "board" \in DOMAIN arg
  /\ op' = "normalMove"
  /\ res' = RoundTrip(normalMove(arg.board))
  /\ UNCHANGED <<arg, rawOf, srvVars, cliVars, netVars>>

ApplyBestMove ==
  /\ op = "none"
  /\ "board" \in DOMAIN arg
  /\ ~emptyBoard(arg.board)
  /\ op' = "bestMove"
  /\ res' = RoundTrip(bestMove(arg.board))
  /\ UNCHANGED <<arg, rawOf, srvVars, cliVars, netVars>>

PureInit ==
  /\ rawOf \in [Seeds -> {[i \in 1..MinRows |-> MinCoins]}]
  /\ SrvInit
  /\ op = "none"
  /\ arg \in PureArgs
  /\ res = FALSE
  /\ NetIdle

PureNext == ApplyCheckMove \/ ApplyNormalMove \/ ApplyBestMove

\* CheckMove, normalMove and bestMove applied once to inputs drawn at the start.
PureSpec == PureInit /\ [][PureNext]_vars

(* ----------------------- GenerateBoard on its own ---------------------- *)

\* the draws of MinRows to GenRows rows
GenRawBoards ==
  UNION {[1..n -> MinCoins..MaxCoins] : n \in MinRows..GenRows}

ApplyGenerateBoard ==
  /\ op = "none"
  /\ \E s \in Seeds :
       /\ arg' = [seed |-> s]
       /\ res' = GenerateBoard(s)
  /\ op' = "GenerateBoard"
  /\ UNCHANGED <<rawOf, srvVars, cliVars, netVars>>

GenInit ==
  /\ rawOf \in [Seeds -> GenRawBoards]
  /\ SrvInit
  /\ PureIdle
  /\ NetIdle

GenNext == ApplyGenerateBoard

\* GenerateBoard applied once to a seed, for every draw the seeds may give.
GenSpec == GenInit /\ [][GenNext]_vars

(* ------------------------------ properties ----------------------------- *)

\* what Serve does with datagram m from c in the current state
Handled(c, m) == Serve(clientGames, clientDifficulties, c, Unmarshal(Marshal(m)))

\* reply takes MoveCount > 0 coins from pile MoveRow of board and nothing else
SinglePileRemoval(board, reply) ==
  /\ ~reply.Nil
  /\ Len(reply.GameState) = Len(board)
  /\ reply.MoveRow \in 0..(Len(board) - 1)
  /\ reply.MoveCount > 0
  /\ \A i \in 1..Len(board) :
       reply.GameState[i] =
         IF i = reply.MoveRow + 1 THEN board[i] - reply.MoveCount ELSE board[i]
  /\ \A i \in 1..Len(board) : reply.GameState[i] >= 0

\* C1: for a client with a session, a datagram that is not a GameStart and
\* fails CheckMove against the stored state (a MoveRow outside [0, len(board))
\* always does) is answered with exactly the stored state, and the stored state
\* and the difficulty are afterwards what they were.
C1_InvalidMoveResendsLastState ==
  /\ \A c \in DOMAIN clientGames : \A m \in Datagrams :
       (/\ ~IsGameStart(m)
        /\ \/ ~CheckMove(m, clientGames[c])
           \/ m.MoveRow < 0
           \/ m.MoveRow >= Len(m.GameState))
         => LET s == Handled(c, m)
            IN  /\ s.ver = "invalid"
                /\ s.sent
                /\ s.reply = clientGames[c]
                /\ s.games = clientGames
                /\ s.diffs = clientDifficulties
  /\ ver = "invalid"
       => written /\ exists /\ servMove = clientGames[raddrStr]
            /\ servMove.MoveRow = lastRow

\* C1 witness: a rejected datagram was handled in the middle of a game and
\* the stored counter-move went out again
C1_Witness ==
  /\ ver = "invalid"
  /\ written
  /\ lastRow >= 0
  /\ servMove = clientGames[raddrStr]
  /\ raddrStr \in DOMAIN acceptedBoard

\* C2: once a move M is accepted and its counter-move R stored, and until another
\* move is accepted or a GameStart arrives, the session holds R, and a datagram
\* that carries M's board again (M itself among them) is judged invalid and
\* answered with R, leaving the session at R.
C2_DuplicateMoveGetsSameReply ==
  /\ \A c \in DOMAIN acceptedBoard :
       /\ c \in DOMAIN clientGames
       /\ clientGames[c] =
            Play(Move(acceptedBoard[c], 0, 0), clientDifficulties[c]).move
       /\ \A m \in Datagrams :
            (~m.Nil /\ m.GameState = acceptedBoard[c])
              => LET s == Handled(c, m)
                 IN  /\ s.ver = "invalid"
                     /\ s.reply = clientGames[c]
                     /\ s.games = clientGames
  /\ replay => ver = "invalid" /\ written /\ servMove = clientGames[raddrStr]

\* C2 witness: a datagram carrying the board of the accepted move arrived again
\* and was answered with the stored counter-move
C2_Witness ==
  /\ replay
  /\ ver = "invalid"
  /\ written
  /\ servMove = clientGames[raddrStr]
  /\ servMove.MoveRow >= 0

\* C5: during play the server accepts no move whose MoveCount is <= 0: CheckMove
\* returns false for it and the session does not advance.
C5_NonPositiveCountRejected ==
  \A c \in DOMAIN clientGames : \A m \in Datagrams :
    (~IsGameStart(m) /\ m.MoveCount <= 0)
      => /\ ~CheckMove(m, clientGames[c])
         /\ Handled(c, m).games = clientGames

\* C7: a GameStart, whatever is stored for the client, stores and sends
\* {GenerateBoard(seed), -1, seed} and sets the difficulty to seed & 1.
C7_GameStartOverwrites ==
  /\ \A c \in Clients : \A seed \in Seeds :
       LET s == Handled(c, NilMove(-1, seed))
           echo == Move(GenerateBoard(seed), -1, seed)
       IN  /\ s.ver = "start"
           /\ s.sent
           /\ s.reply = echo
           /\ DOMAIN s.games = DOMAIN clientGames \cup {c}
           /\ s.games[c] = echo
           /\ s.diffs[c] = seed % 2
           /\ \A d \in DOMAIN clientGames \ {c} : s.games[d] = clientGames[d]
  /\ ver = "start"
       => /\ written
          /\ servMove = clientGames[raddrStr]
          /\ ~servMove.Nil
          /\ servMove.MoveRow = -1
          /\ servMove.MoveCount \in Seeds
          /\ servMove.GameState = GenerateBoard(servMove.MoveCount)
          /\ clientDifficulties[raddrStr] = servMove.MoveCount % 2
          /\ raddrStr \notin DOMAIN acceptedBoard

\* C7 witness: a GameStart arrived in the middle of a game, with another
\* seed's difficulty, and the echo replaced the stored counter-move
C7_Witness ==
  /\ ver = "start"
  /\ exists
  /\ lastRow >= 0
  /\ written
  /\ clientGames[raddrStr] = Move(GenerateBoard(1), -1, 1)
  /\ clientDifficulties[raddrStr] = 1

\* C8: an accepted move whose board is not all zero is answered with the move
\* the session's strategy (0: normalMove, 1: bestMove) makes from the client's
\* board: a single-pile removal from that board, which becomes the stored state.
C8_ValidMoveAnsweredByStrategy ==
  /\ \A c \in DOMAIN clientGames : \A m \in Datagrams :
       (~IsGameStart(m) /\ CheckMove(m, clientGames[c]) /\ ~emptyBoard(m.GameState))
         => LET s == Handled(c, m)
                expect == IF clientDifficulties[c] = 1
                          THEN bestMove(m.GameState).move
                          ELSE normalMove(m.GameState).move
            IN  /\ s.ver = "valid"
                /\ s.sent
                /\ s.reply = expect
                /\ s.games = [clientGames EXCEPT ![c] = expect]
                /\ s.diffs = clientDifficulties
                /\ SinglePileRemoval(m.GameState, s.reply)
  /\ (ver = "valid" /\ ~servMove.Nil)
       => /\ written
          /\ clientGames[raddrStr] = servMove
          /\ SinglePileRemoval(acceptedBoard[raddrStr], servMove)

\* C8 witness: the optimal strategy answered an accepted move by taking more
\* than one coin from the client's board
C8_Witness ==
  /\ ver = "valid"
  /\ written
  /\ clientDifficulties[raddrStr] = 1
  /\ servMove.MoveCount > 1
  /\ SinglePileRemoval(acceptedBoard[raddrStr], servMove)

\* C9 as claimed: with difficulty 1 the reply to every accepted move has a board
\* of nim-sum 0.
C9_ReplyNimSumZero ==
  (ver = "valid" /\ clientDifficulties[raddrStr] = 1)
    => nimSum(servMove.GameState) = 0

\* C9 as amended: with difficulty 1 the reply to an accepted move has a board of
\* nim-sum 0 when the board the client sent has a nonzero nim-sum; when that
\* board has nim-sum 0 and is not all zero the reply is the naive move and its
\* board has a nonzero nim-sum.
C9_ReplyNimSumZeroFromNonzero ==
  (ver = "valid" /\ clientDifficulties[raddrStr] = 1)
    => LET sent == acceptedBoard[raddrStr]
       IN  /\ nimSum(sent) # 0 => nimSum(servMove.GameState) = 0
           /\ (nimSum(sent) = 0 /\ ~emptyBoard(sent))
                => /\ nimSum(servMove.GameState) # 0
                   /\ servMove = normalMove(sent).move

\* C9 witness: the optimal server answered a board of nonzero nim-sum with a
\* board of nim-sum 0 that is not all zero
C9_Witness ==
  /\ ver = "valid"
  /\ clientDifficulties[raddrStr] = 1
  /\ nimSum(acceptedBoard[raddrStr]) # 0
  /\ ~servMove.Nil
  /\ nimSum(servMove.GameState) = 0
  /\ ~emptyBoard(servMove.GameState)

\* C10: a datagram that is not a GameStart, from an identity without a session,
\* is dropped: nothing is sent, no session and no difficulty entry appears for
\* the identity, and every other session stays as it is.
C10_NoSessionDatagramDropped ==
  /\ \A c \in (Clients \cup Strangers) \ DOMAIN clientGames : \A m \in Datagrams :
       ~IsGameStart(m)
         => LET s == Handled(c, m)
            IN  /\ s.ver = "drop"
                /\ ~s.sent
                /\ s.games = clientGames
                /\ s.diffs = clientDifficulties
  /\ ver = "drop"
       => /\ ~written
          /\ ~exists
          /\ raddrStr \notin DOMAIN clientGames
          /\ raddrStr \notin DOMAIN clientDifficulties
  /\ DOMAIN clientDifficulties = DOMAIN clientGames

\* C10 witness: a stranger's datagram was dropped while another identity had
\* a game under way
C10_Witness ==
  /\ ver = "drop"
  /\ raddrStr \in Strangers
  /\ ~written
  /\ \E d \in DOMAIN clientGames : clientGames[d].MoveRow >= 0

\* C4: CheckMove returns false when the boards differ in length, when MoveRow is
\* outside [0, len(board)), when more than one pile differs, and when a pile
\* that differs is not old - MoveCount with 0 < MoveCount <= old.
C4_CheckMoveRejects ==
  op = "CheckMove"
    => LET inc == arg.inc.GameState
           last == arg.last.GameState
           row == arg.inc.MoveRow
           k == arg.inc.MoveCount
           changed == {i \in 1..Len(inc) : inc[i] # last[i]}
           bad == IF Len(inc) # Len(last) THEN TRUE
                  ELSE \/ row < 0
                       \/ row >= Len(inc)
                       \/ Cardinality(changed) > 1
                       \/ \E i \in changed :
                            ~(0 < k /\ k <= last[i] /\ inc[i] = last[i] - k)
       IN  bad => res = FALSE

\* C4 witness: CheckMove was applied to two boards of the same length that
\* differ in two piles, with MoveRow in range, and returned false
C4_Witness ==
  /\ op = "CheckMove"
  /\ Len(arg.inc.GameState) = Len(arg.last.GameState)
  /\ arg.inc.MoveRow \in 0..(Len(arg.inc.GameState) - 1)
  /\ arg.inc.MoveCount > 0
  /\ Cardinality({i \in 1..Len(arg.inc.GameState) :
                    arg.inc.GameState[i] # arg.last.GameState[i]}) = 2
  /\ res = FALSE

\* C6: for every board that is not all zero, the move normalMove returns and
\* the move bestMove returns are accepted by CheckMove against the board as it
\* was before the strategy ran.
C6_StrategyMoveIsLegal ==
  (op \in {"normalMove", "bestMove"} /\ ~emptyBoard(arg.board)) => res.legal

\* C6 on boards whose piles fit an int8: there the round trip holds
StrategyMoveIsLegalBelowInt8 ==
  (/\ op \in {"normalMove", "bestMove"}
   /\ ~emptyBoard(arg.board)
   /\ \A i \in 1..Len(arg.board) : arg.board[i] <= Int8Max)
    => res.legal

\* C3: one NewClient client against the server, over a network that loses,
\* duplicates and reorders datagrams but eventually delivers a datagram that is
\* sent again and again: the client eventually records a GameComplete (winner
\* client or server) and exits.
C3_ClientEventuallyCompletes ==
  <>(pc = "done" /\ winner \in {"client", "server"})

\* the piles in which board b differs from board a of the same length
ChangedPiles(a, b) == {i \in 1..Len(a) : a[i] # b[i]}

\* C11: for every board whose nim-sum is not 0, the board bestMove returns has
\* nim-sum 0, differs from the input in exactly one pile, and the reported
\* MoveCount is the amount taken from the reported MoveRow.
C11_BestMoveZeroesNimSum ==
  (op = "bestMove" /\ nimSum(arg.board) # 0)
    => /\ ~res.err
       /\ Len(res.move.GameState) = Len(arg.board)
       /\ nimSum(res.move.GameState) = 0
       /\ ChangedPiles(arg.board, res.move.GameState) = {res.move.MoveRow + 1}
       /\ res.move.MoveCount
            = arg.board[res.move.MoveRow + 1] - res.move.GameState[res.move.MoveRow + 1]

\* C11 when the amount taken fits an int8: there the reported MoveCount is the
\* amount taken; the nim-sum and the single pile hold for every board
BestMoveZeroesNimSumBelowInt8 ==
  (op = "bestMove" /\ nimSum(arg.board) # 0)
    => /\ ~res.err
       /\ Len(res.move.GameState) = Len(arg.board)
       /\ nimSum(res.move.GameState) = 0
       /\ ChangedPiles(arg.board, res.move.GameState) = {res.move.MoveRow + 1}
       /\ LET taken == arg.board[res.move.MoveRow + 1]
                         - res.move.GameState[res.move.MoveRow + 1]
          IN  /\ taken > 0
              /\ taken <= Int8Max => res.move.MoveCount = taken
              /\ taken > Int8Max => res.move.MoveCount = taken - 256

\* C12: for every board with a pile that is not 0, normalMove takes exactly 1
\* from the lowest-index such pile, leaves every other pile as it was, and
\* reports that pile's index with MoveCount 1; it returns an error only for the
\* all-zero board.
C12_NormalMoveTakesOneFromFirst ==
  op = "normalMove"
    => /\ res.err <=> emptyBoard(arg.board)
       /\ ~emptyBoard(arg.board)
            => LET first == CHOOSE i \in 1..Len(arg.board) :
                              /\ arg.board[i] # 0
                              /\ \A j \in 1..(i - 1) : arg.board[j] = 0
               IN  /\ res.move.MoveRow = first - 1
                   /\ res.move.MoveCount = 1
                   /\ Len(res.move.GameState) = Len(arg.board)
                   /\ \A i \in 1..Len(arg.board) :
                        res.move.GameState[i] =
                          IF i = first THEN arg.board[i] - 1 ELSE arg.board[i]

\* C12 witness: normalMove was applied to a board whose pile 0 is empty and
\* whose pile 1 holds more than one coin, and took one coin from pile 1
C12_Witness ==
  /\ op = "normalMove"
  /\ Len(arg.board) = 2
  /\ arg.board[1] = 0
  /\ arg.board[2] > 1
  /\ res.move.MoveRow = 1
  /\ res.move.GameState[2] = arg.board[2] - 1

\* C13: for every draw (MinRows or more piles of MinCoins..MaxCoins coins) the
\* board GenerateBoard returns has a nim-sum that is not 0, so it is not all
\* zero; its piles stay within MinCoins - 1 .. MaxCoins.
C13_GeneratedBoardNimSumNonzero ==
  op = "GenerateBoard"
    => /\ nimSum(res) # 0
       /\ ~emptyBoard(res)
       /\ Len(res) = Len(rawOf[arg.seed])
       /\ \A i \in 1..Len(res) : res[i] \in 0..MaxCoins

\* C13 witness: GenerateBoard was applied to a draw with nim-sum 0 whose last
\* pile is full, and took one coin from the last pile
C13_Witness ==
  /\ op = "GenerateBoard"
  /\ nimSum(rawOf[arg.seed]) = 0
  /\ rawOf[arg.seed][Len(res)] = MaxCoins
  /\ res[Len(res)] = MaxCoins - 1

\* GenerateBoard was applied to a draw with nim-sum 0 whose last pile is not
\* full, and added one coin to the last pile
GenerateBoardAddsCoin ==
  /\ op = "GenerateBoard"
  /\ nimSum(rawOf[arg.seed]) = 0
  /\ rawOf[arg.seed][Len(res)] < MaxCoins
  /\ res[Len(res)] = rawOf[arg.seed][Len(res)] + 1

\* the client reads a datagram that decodes and that isValidSuccessor accepts
\* against its board, in the inner loop
AdoptsReply ==
  /\ pc = "wait"
  /\ inbox # <<>>
  /\ inbox' = Tail(inbox)
  /\ corrupt' = corrupt
  /\ isValidSuccessor(state, Unmarshal(Head(inbox))) = "valid"

\* C14: in the inner loop, a receive that times out, a datagram that does not
\* decode and a reply isValidSuccessor rejects all leave the client's board and
\* its pending move as they were and lead to sending again; what is sent is
\* exactly the pending move; the board and the pending move change only when
\* the start reply is taken or a reply isValidSuccessor accepts is adopted.
C14_RetryResendsSameMove ==
  [][/\ (pc = "wait" /\ pc' # "wait" /\ ~AdoptsReply)
          => (pc' = "send" /\ state' = state /\ sendMove' = sendMove)
     /\ (pc = "send" /\ pc' # "send")
          => /\ c2s' = c2s \cup {Marshal(sendMove)}
             /\ state' = state
             /\ sendMove' = sendMove
     /\ (state' # state \/ sendMove' # sendMove)
          => \/ AdoptsReply
             \/ pc = "startWait" /\ inbox # <<>> /\ inbox' = Tail(inbox)
    ]_vars

\* C14 witness: the client is about to send its move again after a reply that
\* isValidSuccessor rejected, and that move is the one it sent before
C14_Witness ==
  /\ pc = "send"
  /\ lastRecv = "invalid"
  /\ ~sendMove.Nil
  /\ state = sendMove.GameState
  /\ ver \in {"valid", "invalid"}

\* the client is about to send its move again after a timeout
RetryAfterTimeout == pc = "send" /\ lastRecv = "timeout" /\ ~sendMove.Nil

\* the client is about to send its move again after a datagram that did not
\* decode
RetryAfterCorrupt == pc = "send" /\ lastRecv = "corrupt" /\ ~sendMove.Nil

\* every pile of board b is 0
AllZero(b) == \A i \in 1..Len(b) : b[i] = 0

\* C15: the client records GameComplete with winner client only in the step
\* that sends its move, when the board resulting from that move is all zero,
\* and without reading a reply; it records winner server only on adopting a
\* reply isValidSuccessor accepts whose board is all zero; a GameComplete is
\* recorded at most once, the client exits with it, and nothing is sent or
\* changed by the client afterwards.
C15_GameCompleteOnlyOnEmptyBoard ==
  [][/\ winner' # winner
          => /\ winner = "none"
             /\ pc # "done"
             /\ pc' = "done"
             /\ \/ /\ winner' = "client"
                   /\ pc = "send"
                   /\ AllZero(state)
                   /\ state = sendMove.GameState
                   /\ c2s' = c2s \cup {Marshal(sendMove)}
                   /\ inbox' = inbox
                \/ /\ winner' = "server"
                   /\ AdoptsReply
                   /\ state' = Unmarshal(Head(inbox)).GameState
                   /\ AllZero(state')
     /\ (pc' = "done" /\ pc # "done") => (winner = "none" /\ winner' # "none")
     /\ pc = "done" => (UNCHANGED cliVars /\ c2s' \subseteq c2s)
    ]_vars

\* C15 witness: the client has emptied the board, sent that move and exited
\* with GameComplete winner client; the move is still in flight
C15_Witness ==
  /\ pc = "done"
  /\ winner = "client"
  /\ AllZero(state)
  /\ Len(state) >= MinRows
  /\ Marshal(sendMove) \in c2s
  /\ lastRecv = "none"

\* m is the sentinel {board absent, MoveRow -2, MoveCount -2}
IsSentinel(m) == m.Nil /\ m.GameState = <<>> /\ m.MoveRow = -2 /\ m.MoveCount = -2

\* C16: when a move CheckMove accepts carries an all-zero board, the reply and
\* the session's new stored state are the sentinel {board absent, MoveRow -2,
\* MoveCount -2}; while the sentinel is stored, every datagram of that client
\* that is not a GameStart is judged invalid, answered with the sentinel, and
\* leaves the sentinel stored.
C16_ResignationIsSticky ==
  \A c \in DOMAIN clientGames : \A m \in Datagrams :
    ~IsGameStart(m)
      => LET h == Handled(c, m)
         IN  /\ (h.ver = "valid" /\ emptyBoard(m.GameState))
                  => /\ ~h.err
                     /\ h.sent
                     /\ IsSentinel(h.reply)
                     /\ IsSentinel(h.games[c])
             /\ IsSentinel(clientGames[c])
                  => /\ h.ver = "invalid"
                     /\ h.sent
                     /\ IsSentinel(h.reply)
                     /\ IsSentinel(h.games[c])
                     /\ h.diffs = clientDifficulties

\* C16 witness: a client whose session holds the sentinel sent a move with a
\* board, it was judged invalid and answered with the sentinel
C16_Witness ==
  /\ raddrStr \in DOMAIN clientGames
  /\ IsSentinel(clientGames[raddrStr])
  /\ ver = "invalid"
  /\ written
  /\ IsSentinel(servMove)
  /\ lastRow = -2

\* the server has just accepted an all-zero board and stored the sentinel
ResignedJustNow ==
  /\ raddrStr \in DOMAIN clientGames
  /\ IsSentinel(clientGames[raddrStr])
  /\ ver = "valid"
  /\ written
  /\ IsSentinel(servMove)

\* the client takes a board to move from: the start reply, or a reply
\* isValidSuccessor accepts
TakesBoard == AdoptsReply \/ (pc = "startWait" /\ lastRecv' = "start")

\* once the client has moved, the board it holds and sends has nim-sum 0, and
\* it has not recorded GameComplete winner server
ClientHoldsNimSumZero ==
  /\ pc \in {"send", "wait", "done"}
       => /\ state = sendMove.GameState
          /\ nimSum(state) = 0
  /\ winner # "server"

\* every board the client takes to move from has a nim-sum that is not 0
ClientMovesFromNonzero ==
  [][TakesBoard => nimSum(Unmarshal(Head(inbox)).GameState) # 0]_vars

\* C17: with the optimal client, every board the client moves from has a
\* nim-sum that is not 0, every board it sends has nim-sum 0, it never records
\* GameComplete winner server, and every run ends with GameComplete winner
\* client.
C17_OptimalClientWins ==
  /\ []ClientHoldsNimSumZero
  /\ ClientMovesFromNonzero
  /\ <>(pc = "done" /\ winner = "client")

\* the difficulty the server gives the client's seed
ClientMode == ToUint8(clientSeed) % 2

\* the server's answer to the client's GameStart
StartReply == Move(GenerateBoard(clientSeed), -1, clientSeed)

RECURSIVE EarlierReplies(_, _)
\* the replies of the game from reply on, up to and including the one the
\* client moved from to reach board: the server's moves alternate with
\* decideMove's
EarlierReplies(reply, board) ==
  LET d == decideMove(reply.GameState)
  IN  IF d.err \/ d.move.GameState = board \/ emptyBoard(d.move.GameState)
      THEN {reply}
      ELSE {reply} \cup EarlierReplies(Play(d.move, ClientMode).move, board)

\* while the client holds the board of its move, isValidSuccessor rejects every
\* earlier reply of the game, the answer to GameStart included
EarlierRepliesRejected ==
  pc \in {"send", "wait"}
    => /\ StartReply \in EarlierReplies(StartReply, state)
       /\ \A r \in EarlierReplies(StartReply, state) :
            isValidSuccessor(state, Unmarshal(Marshal(r))) = "invalid"

\* C18: every reply the client adopts after sending move M is the server's
\* counter-move to M, a single-pile removal from M's board; isValidSuccessor
\* rejects the earlier replies of the game, the answer to GameStart included;
\* and no pile of the client's board ever grows.
C18_AdoptsOnlyCounterMove ==
  /\ []EarlierRepliesRejected
  /\ [][/\ AdoptsReply
             => /\ state = sendMove.GameState
                /\ Unmarshal(Head(inbox)) = Play(sendMove, ClientMode).move
                /\ SinglePileRemoval(sendMove.GameState, Unmarshal(Head(inbox)))
                /\ Unmarshal(Head(inbox)) \notin EarlierReplies(StartReply, state)
        /\ pc \in {"send", "wait"}
             => /\ Len(state') = Len(state)
                /\ \A i \in 1..Len(state) : state'[i] <= state[i]
       ]_vars

\* C18 witness: the network has duplicated a datagram, the server holds its
\* counter-move to the client's second or later move, and the client has just
\* rejected a reply (so an earlier one) and is about to send that move again
C18_Witness ==
  /\ pc = "send"
  /\ lastRecv = "invalid"
  /\ dups > 0
  /\ \E c \in DOMAIN clientGames :
       clientGames[c] = Play(sendMove, ClientMode).move
  /\ Cardinality(EarlierReplies(StartReply, state)) > 1

\* the step handles a datagram of c that is not a GameStart, and c had a
\* session before it
SameGameStep(c) ==
  /\ c \in DOMAIN clientGames
  /\ raddrStr' = c
  /\ ver' # "start"

\* board b has the length of board a and no pile larger than in a
NoPileLarger(a, b) ==
  /\ Len(b) = Len(a)
  /\ \A i \in 1..Len(a) : b[i] <= a[i]

\* C19: between two GameStarts of a client, whatever datagrams the server
\* handles, the board of the session's stored state keeps its length and no
\* pile is larger than in the stored state before.
C19_StoredBoardMonotone ==
  [][\A c \in Clients :
       SameGameStep(c)
         => NoPileLarger(clientGames[c].GameState, clientGames'[c].GameState)
    ]_vars

\* C19 amended: the same, until the client empties the board; then the stored
\* state is the sentinel, which has no board, and stays the sentinel.
C19_StoredBoardMonotoneUntilSentinel ==
  [][\A c \in Clients :
       SameGameStep(c)
         => /\ IsSentinel(clientGames[c]) => IsSentinel(clientGames'[c])
            /\ \/ IsSentinel(clientGames'[c])
               \/ NoPileLarger(clientGames[c].GameState, clientGames'[c].GameState)
    ]_vars

\* C19 witness: the server has answered an accepted move of a client whose
\* stored state was already a move of the server, and stored a board of the
\* same length with one pile smaller than in the board the client sent
C19_Witness ==
  /\ ver = "valid"
  /\ lastRow >= 0
  /\ raddrStr \in DOMAIN clientGames
  /\ raddrStr \in DOMAIN acceptedBoard
  /\ ~clientGames[raddrStr].Nil
  /\ NoPileLarger(acceptedBoard[raddrStr], clientGames[raddrStr].GameState)
  /\ clientGames[raddrStr].GameState # acceptedBoard[raddrStr]

\* C20: in every reachable server state and for every datagram that decodes,
\* the handler reaches no fatal path: normalMove never fails inside Play (no
\* nil result dereferenced, no exit from bestMove's CheckErr), because Play
\* asks for a strategy move only on a board that is not all zero, and on such
\* a board with nim-sum S # 0 some pile i has pile[i] XOR S <= pile[i].
C20_NoFatalPath ==
  /\ ~crashed
  /\ \A c \in Clients \cup Strangers : \A m \in Datagrams :
       LET h == Handled(c, m)
           board == m.GameState
           S == nimSum(board)
       IN  /\ ~h.err
           /\ h.ver = "valid"
                => /\ AllZero(board) <=> IsSentinel(h.reply)
                   /\ ~AllZero(board) => ~h.reply.Nil
                   /\ S # 0 => \E i \in 1..Len(board) : Xor(board[i], S) <= board[i]

\* C20 witness: the server, at difficulty 1, has answered an accepted move
\* whose board had a nim-sum other than 0 with bestMove's move to nim-sum 0,
\* and has not exited
C20_Witness ==
  /\ ~crashed
  /\ ver = "valid"
  /\ written
  /\ raddrStr \in DOMAIN clientDifficulties
  /\ clientDifficulties[raddrStr] = 1
  /\ ~servMove.Nil
  /\ nimSum(acceptedBoard[raddrStr]) # 0
  /\ nimSum(servMove.GameState) = 0

\* the piles of a board that bestMove's search accepts: pile XOR S <= pile
CandidatePiles(board) ==
  {i \in 1..Len(board) : Xor(nimSum(board), board[i]) <= board[i]}

\* C21 (as stated): for every board the server accepts whose nim-sum S is not
\* 0, exactly one pile i satisfies pile[i] XOR S <= pile[i]
C21_CandidatePileUnique ==
  \A c \in Clients \cup Strangers : \A m \in Datagrams :
    LET h == Handled(c, m)
    IN  h.ver = "valid" /\ nimSum(m.GameState) # 0
          => Cardinality(CandidatePiles(m.GameState)) = 1

\* C21 (amended): for every board the server accepts whose nim-sum S is not 0,
\* at least one pile i satisfies pile[i] XOR S <= pile[i]; there may be
\* several, and the server at difficulty 1 takes from the first of them,
\* leaving pile[i] XOR S coins there
C21_CandidatePileExistsFirstTaken ==
  \A c \in Clients \cup Strangers : \A m \in Datagrams :
    LET h == Handled(c, m)
        board == m.GameState
        rows == CandidatePiles(board)
    IN  h.ver = "valid" /\ nimSum(board) # 0
          => /\ rows # {}
             /\ h.diffs[c] = 1
                  => \E i \in rows :
                       /\ \A j \in rows : i <= j
                       /\ h.reply.MoveRow = i - 1
                       /\ h.reply.GameState
                            = [board EXCEPT ![i] = Xor(nimSum(board), board[i])]

\* C21 witness: the server, at difficulty 1, has answered an accepted board
\* that has several candidate piles by taking from the first of them
C21_Witness ==
  /\ ver = "valid"
  /\ written
  /\ raddrStr \in DOMAIN clientDifficulties
  /\ clientDifficulties[raddrStr] = 1
  /\ nimSum(acceptedBoard[raddrStr]) # 0
  /\ Cardinality(CandidatePiles(acceptedBoard[raddrStr])) > 1
  /\ \E i \in CandidatePiles(acceptedBoard[raddrStr]) :
       /\ \A j \in CandidatePiles(acceptedBoard[raddrStr]) : i <= j
       /\ servMove.MoveRow = i - 1

\* the legacy client has read the server's answer to its start packet, the
\* first datagram it reads
LegacyEchoRead == lastRecv # "none"

\* C22: the legacy client on a reliable network, for every seed: once the
\* server's answer to the start packet has arrived the client has taken its
\* board and sent a first move, and the run eventually records GameComplete
\* and leaves the receive loop, whichever side takes the last coin
C22_LegacyClientCompletes ==
  /\ [](LegacyEchoRead => ~sendMove.Nil)
  /\ <>(pc = "done" /\ winner # "none")

\* the legacy client with a seed above 0 does send a first move on the board
\* of the server's answer to the start packet
LegacyFirstMoveWithPositiveSeed ==
  clientSeed > 0 /\ LegacyEchoRead => ~sendMove.Nil

\* the run of a legacy client with a seed above 0 eventually records
\* GameComplete
LegacyPositiveSeedCompletes ==
  clientSeed > 0 => <>(pc = "done" /\ winner # "none")

\* the legacy client never waits in its loop with nothing on the way to
\* either side, unless it took the last coin itself or its seed is not above 0
LegacyStuckOnlyAfterOwnWinOrSeed ==
  pc = "legacyRead" /\ c2s = {} /\ s2c = {}
    => \/ clientSeed <= 0 /\ sendMove.Nil
       \/ AllZero(state) /\ ~sendMove.Nil /\ lastRecv = "ignored"

\* the legacy client has read the resignation sentinel and waits for ever
LegacyWaitsAfterOwnWin ==
  /\ pc = "legacyRead"
  /\ c2s = {}
  /\ s2c = {}
  /\ clientSeed > 0
  /\ lastRecv = "ignored"
  /\ IsSentinel(clientGames["a"])

\* the legacy client has recorded GameComplete with winner Server
LegacyServerWon == pc = "done" /\ winner = "Server"

\* the entries of map m under key c alone
Only(m, c) == [x \in DOMAIN m \cap {c} |-> m[x]]

\* C23: in every reachable state of the server with two players, handling any
\* datagram identity c may send (a GameStart, a valid or invalid move, or a
\* dropped message) leaves the stored state and the difficulty of every other
\* identity as they were, and gives c the verdict, the reply and the new
\* stored state it would get if the maps held c's entries alone: each client
\* gets the replies it would get alone
C23_SessionIsolation ==
  \A c \in Players : \A m \in PlayerDatagrams(c) :
    LET h == Handled(c, m)
        alone == Serve(Only(clientGames, c), Only(clientDifficulties, c), c,
                       Unmarshal(Marshal(m)))
    IN  /\ \A o \in Players \ {c} :
             /\ Only(h.games, o) = Only(clientGames, o)
             /\ Only(h.diffs, o) = Only(clientDifficulties, o)
        /\ h.ver = alone.ver
        /\ h.sent = alone.sent
        /\ h.reply = alone.reply
        /\ h.err = alone.err
        /\ Only(h.games, c) = alone.games
        /\ Only(h.diffs, c) = alone.diffs

\* C23 witness: both identities are in the middle of a game, at different
\* difficulties and on different boards, and the server has just answered a
\* valid move of one of them
C23_Witness ==
  /\ ver = "valid"
  /\ written
  /\ DOMAIN clientGames = Players
  /\ \E o \in Players \ {raddrStr} :
       /\ clientGames[o].MoveRow >= 0
       /\ clientGames[o].GameState # clientGames[raddrStr].GameState
       /\ clientDifficulties[o] # clientDifficulties[raddrStr]

\* with two games under way the server has just sent back the stored state
\* for an invalid move
IsolatedInvalidMove ==
  /\ ver = "invalid"
  /\ written
  /\ DOMAIN clientGames = Players

\* with the other identity's game under way the server has just dropped a
\* datagram
IsolatedDrop ==
  /\ ver = "drop"
  /\ clientGames # <<>>

\* the client has recorded GameComplete with winner client
ClientRecordedWin == pc = "done" /\ winner = "client"

\* the server's session for the client holds the resignation sentinel
ServerHoldsSentinel ==
  \E c \in Clients : c \in DOMAIN clientGames /\ IsSentinel(clientGames[c])

\* C24: over a network that may drop datagrams, whenever the client has
\* recorded GameComplete with winner client, the server has received or
\* eventually receives the board-emptying move, and its session for the
\* client reaches the resignation sentinel
C24_ServerLearnsClientWin == ClientRecordedWin ~> ServerHoldsSentinel

\* once the client has recorded its win and no datagram of it is on the way,
\* the server holds the sentinel
ServerKnowsWinWhenNothingInFlight ==
  ClientRecordedWin /\ c2s = {} => ServerHoldsSentinel

\* the client has recorded its win, its last move was lost, and the server
\* still holds the board before that move
WinNeverReachedServer ==
  /\ ClientRecordedWin
  /\ c2s = {}
  /\ s2c = {}
  /\ inbox = <<>>
  /\ dups = 0
  /\ corrupt = 0
  /\ ver = "valid"
  /\ CheckMove(sendMove, clientGames["a"])

\* the client has recorded its win and the server holds the sentinel
WinReachedServer == ClientRecordedWin /\ ServerHoldsSentinel

====
